---- MODULE Spec2Model ----
(***************************************************************************)
(* Kord Legal: the two HTTP proxy routes (POST /api/investigate and the    *)
(* verify route) and the client page's mocked analysis.                    *)
(*                                                                         *)
(* SpecRoute : one proxy handler serving requests, one at a time (the      *)
(*             handlers keep no state between requests).                   *)
(* Spec      : the Home page component: text area, submit, the timed       *)
(*             performAnalysis runs, the auto-select effect and            *)
(*             "New Analysis".                                             *)
(* SpecUpload: the landing page: text area and file uploads.               *)
(* SpecSelect: Spec with the selections made in the dashboard.             *)
(* SpecTheme : the theme of the themed Home components.                    *)
(* SpecLive  : Spec with the timers firing and the effects running (weak   *)
(*             fairness).                                                  *)
(***************************************************************************)
EXTENDS Integers, Sequences, FiniteSets, TLC

VARIABLES
    \* ---- proxy route handler ----
    route,          \* which route serves the current request
    envKey,         \* process.env.OPENROUTER_API_KEY at the time of the request
    reqBody,        \* the request body as sent by the client
    pc,             \* position of the handler: "idle", "handling", "awaitFetch", "done"
    upstreamReq,    \* what the handler passed to fetch (when it called it)
    upstreamResp,   \* what the upstream answered (or that the call failed)
    fetchCount,     \* number of fetch calls made for the current request
    response,       \* the NextResponse the handler returned
    caught,         \* the error the handler's catch block received ("" when none)
    \* ---- Home page component ----
    variant,        \* which version of the page is mounted
    briefText,      \* useState("")
    status,         \* useState<AnalysisStatus>("idle")
    currentStep,    \* useState("")
    reviewMemo,     \* useState<LegalReviewMemo | null>(null)
    submittedDocument, \* useState<string | null>(null)
    runs,           \* performAnalysis calls waiting on their step timer,
                    \* in the order in which their timers fire
    nCalls,         \* number of performAnalysis calls so far (numbers the runs)
    completed,      \* the performAnalysis call that returned last
    uploadTime,     \* useState<string>("")
    isExtracting,   \* useState(false)
    extractionError, \* useState<string>("")
    selectedIssue,  \* useState<any>(null)
    selectedIssueType, \* useState<string>("")
    selectedCategory, \* useState<string | null>(null)
    expandedIssueId, \* useState<string | null>(null)
    copiedText,     \* useState<string | null>(null)
    uploadedFile,   \* useState<{ name: string; type: string } | null>(null)
    wordCount,      \* useState<number>(0)
    pending,        \* file reads and extractions under way
    alerted,        \* the message of the last window.alert ("" when none)
    copyTimers,     \* clipboard timers under way
    \* ---- theme of the themed Home components ----
    themed,         \* which themed component is mounted ("" before the mount)
    prefersDark,    \* matchMedia("(prefers-color-scheme: dark)").matches
    isDark,         \* useState(true)
    darkClass,      \* document.documentElement has the class "dark"
    themeDue,       \* effects still to run: "mount", "class" or "none"
    themeLog,       \* isDark and the class before each click on the toggle
    \* ---- auto-analysis Home component (part_004) ----
    autoText,       \* its useState(""): briefText
    autoStatus,     \* its useState<AnalysisStatus>("idle"): status
    autoStep,       \* its useState(""): currentStep
    results,        \* useState<AnalysisResults | null>(null)
    debounce,       \* time left on the effect's setTimeout (NoTimer when none)
    autoRuns,       \* performAnalysis calls waiting on a step delay, oldest first
    \* ---- highlighted document of the dashboards ----
    renderVariant,  \* the version whose dashboard is rendered ("" when none)
    renderDocument, \* the submittedDocument of that render, as a string
    issues,         \* const issues = [] of the builder, after the sort
    parts           \* const parts = [] of the builder, as it is returned

routeVars == <<route, envKey, reqBody, pc, upstreamReq, upstreamResp,
               fetchCount, response, caught>>
uploadVars == <<isExtracting, extractionError, uploadedFile, wordCount,
                pending, alerted>>
selectVars == <<selectedIssue, selectedIssueType, selectedCategory,
                expandedIssueId, copiedText, copyTimers>>
pageVars  == <<variant, briefText, status, currentStep, reviewMemo,
               submittedDocument, runs, nCalls, completed, uploadTime,
               uploadVars, selectVars>>
themeVars == <<themed, prefersDark, isDark, darkClass, themeDue, themeLog>>
autoVars  == <<autoText, autoStatus, autoStep, results, debounce, autoRuns>>
renderVars == <<renderVariant, renderDocument, issues, parts>>
vars      == <<routeVars, pageVars, themeVars, autoVars, renderVars>>

(***************************************************************************)
(* Strings are sequences of characters; the page's texts only need the     *)
(* character classes the code distinguishes.                               *)
(***************************************************************************)
RECURSIVE TrimLeft(_, _)
TrimLeft(s, ws) ==
    IF s # <<>> /\ Head(s) \in ws THEN TrimLeft(Tail(s), ws) ELSE s

RECURSIVE TrimRight(_, _)
TrimRight(s, ws) ==
    IF s # <<>> /\ s[Len(s)] \in ws
    THEN TrimRight(SubSeq(s, 1, Len(s) - 1), ws) ELSE s

\* String.prototype.trim
Trim(s, ws) == TrimRight(TrimLeft(s, ws), ws)

(***************************************************************************)
(*                         THE PROXY ROUTES                                *)
(***************************************************************************)
Routes == {"investigate", "verify"}

WhiteSpace == {" ", "\n", "\t"}

\* process.env.OPENROUTER_API_KEY: unset, or a string
EnvKeys ==
    { [set |-> FALSE, val |-> <<>>],
      [set |-> TRUE,  val |-> <<>>],
      [set |-> TRUE,  val |-> <<" ", "\n">>],
      [set |-> TRUE,  val |-> <<"k">>],
      [set |-> TRUE,  val |-> <<" ", "k", "\n">>] }

\* const apiKey = process.env.OPENROUTER_API_KEY?.trim();  (undefined when unset)
ApiKey(env) ==
    IF env.set THEN [defined |-> TRUE,  val |-> Trim(env.val, WhiteSpace)]
               ELSE [defined |-> FALSE, val |-> <<>>]

\* !apiKey : undefined and "" are falsy
KeyMissing(k) == ~k.defined \/ k.val = <<>>

\* The values a body's prompt / requestId can have, by JavaScript type.
Undefined == [type |-> "undefined", val |-> ""]
PromptValues ==
    { Undefined,
      [type |-> "null",   val |-> ""],
      [type |-> "number", val |-> "42"],
      [type |-> "string", val |-> ""],
      [type |-> "string", val |-> "DOCUMENT 1:\nbrief"] }
RequestIdValues ==
    { Undefined, [type |-> "string", val |-> "req-1"] }

\* Request bodies: text that is not JSON, the JSON values null and 7, and
\* JSON objects with or without prompt / requestId.
RequestBodies ==
    { [json |-> FALSE, kind |-> "text",   prompt |-> Undefined, requestId |-> Undefined],
      [json |-> TRUE,  kind |-> "null",   prompt |-> Undefined, requestId |-> Undefined],
      [json |-> TRUE,  kind |-> "number", prompt |-> Undefined, requestId |-> Undefined] }
    \cup
    { [json |-> TRUE, kind |-> "object", prompt |-> p, requestId |-> r] :
        p \in PromptValues, r \in RequestIdValues }

\* JSON texts are token sequences: "{" key value "}", "{" "}", a scalar, with
\* "ws" (insignificant white space) anywhere between tokens.
JsonKeys    == {"error", "choices"}
JsonScalars == {"API Key is not configured", "Internal Server Error",
                "upstream message", "1"}

StripWs(raw) == SelectSeq(raw, LAMBDA t : t # "ws")

\* Index after the JSON value that starts at toks[i], 0 when there is none.
RECURSIVE ParseValue(_, _)
ParseValue(toks, i) ==
    IF i > Len(toks) THEN 0
    ELSE IF toks[i] \in JsonScalars THEN i + 1
    ELSE IF toks[i] # "{" \/ i + 1 > Len(toks) THEN 0
    ELSE IF toks[i + 1] = "}" THEN i + 2
    ELSE IF toks[i + 1] \notin JsonKeys THEN 0
    ELSE LET j == ParseValue(toks, i + 2)
         IN  IF j = 0 \/ j > Len(toks) \/ toks[j] # "}" THEN 0 ELSE j + 1

\* response.json(): the parsed value (here: its canonical text), or a throw
JsonParse(raw) ==
    LET toks == StripWs(raw)
    IN  IF ParseValue(toks, 1) = Len(toks) + 1
        THEN [ok |-> TRUE,  value |-> toks]
        ELSE [ok |-> FALSE, value |-> <<>>]

\* JSON.stringify(value), as NextResponse.json writes the body: no white space
JsonStringify(value) == value

UpstreamStatuses == {200, 201, 400, 429, 502}

UpstreamBodies ==
    { <<"{", "choices", "1", "}">>,
      <<"{", "ws", "error", "ws", "upstream message", "ws", "}">>,
      <<"{", "error", "upstream message", "}">>,
      <<"<html>">>,
      <<>> }

\* Response.ok
Ok(st) == st >= 200 /\ st <= 299

NoResponse == [status |-> 0, body |-> <<>>]
NoRequest  == [sent |-> FALSE]
NoUpstream == [arrived |-> FALSE, failed |-> FALSE, status |-> 0, body |-> <<>>]

\* NextResponse.json(data, { status })
NextResponseJson(data, st) == [status |-> st, body |-> JsonStringify(data)]

\* return NextResponse.json({ error: "API Key is not configured" }, { status: 401 })
KeyMissingResponse ==
    NextResponseJson(<<"{", "error", "API Key is not configured", "}">>, 401)

\* The catch block answering with the key-missing response (copied return).
CatchResponse_KeyMessage ==
    NextResponseJson(<<"{", "error", "API Key is not configured", "}">>, 401)

\* catch (error) { ...; return NextResponse.json({ error: "Internal Server Error" }, { status: 500 }) }
CatchResponse ==
    NextResponseJson(<<"{", "error", "Internal Server Error", "}">>, 500)

\* The system prompt and model each route sends.
SystemPrompt(r) == IF r = "verify" THEN "hostile auditor" ELSE "senior investigator"
Model(r) == IF r = "verify" THEN "mistralai/mistral-7b-instruct:free"
                            ELSE "google/gemini-2.0-flash-exp:free"

\* The handler from its entry to its first call of fetch: what it does with
\* the request.  kind "throw" is an exception reaching the catch block.
BeforeFetch(r, body, env) ==
    IF ~body.json
    THEN [kind |-> "throw", error |-> "request body is not JSON"]
    ELSE IF body.kind = "null"
    THEN [kind |-> "throw", error |-> "cannot destructure null"]
    ELSE IF r = "verify" /\ body.prompt.type # "string"
    THEN [kind |-> "throw", error |-> "prompt.match is not a function"]
    ELSE IF KeyMissing(ApiKey(env))
    THEN [kind |-> "return", error |-> ""]
    ELSE [kind |-> "fetch", error |-> ""]

\* The body of the fetch call.
FetchRequest(r, body, env) ==
    [sent   |-> TRUE,
     auth   |-> ApiKey(env).val,
     model  |-> Model(r),
     system |-> SystemPrompt(r),
     user   |-> body.prompt]

\* The success path passing the upstream status through as the error path does.
AfterFetch_PassStatus(st, raw) ==
    LET data == JsonParse(raw)
    IN  IF ~data.ok
        THEN [kind |-> "throw", error |-> "upstream body is not JSON",
              resp |-> NoResponse]
        ELSE [kind |-> "return", error |-> "",
              resp |-> NextResponseJson(data.value, st)]

\* The handler after fetch resolved with status st and body raw.
AfterFetch(st, raw) ==
    LET data == JsonParse(raw)
    IN  IF ~data.ok
        THEN [kind |-> "throw", error |-> "upstream body is not JSON",
              resp |-> NoResponse]
        ELSE IF ~Ok(st)
        THEN [kind |-> "return", error |-> "",
              resp |-> NextResponseJson(data.value, st)]
        ELSE [kind |-> "return", error |-> "",
              resp |-> NextResponseJson(data.value, 200)]

InitRoute ==
    /\ route = "investigate"
    /\ envKey = [set |-> FALSE, val |-> <<>>]
    /\ reqBody = [json |-> FALSE, kind |-> "text", prompt |-> Undefined,
                  requestId |-> Undefined]
    /\ pc = "idle"
    /\ upstreamReq = NoRequest
    /\ upstreamResp = NoUpstream
    /\ fetchCount = 0
    /\ response = NoResponse
    /\ caught = ""

\* A request arrives at route r (the previous one has been answered).
ReceiveRequest(r, body, env) ==
    /\ pc \in {"idle", "done"}
    /\ route' = r
    /\ reqBody' = body
    /\ envKey' = env
    /\ pc' = "handling"
    /\ upstreamReq' = NoRequest
    /\ upstreamResp' = NoUpstream
    /\ fetchCount' = 0
    /\ response' = NoResponse
    /\ caught' = ""

\* POST, up to the await of fetch.
HandleRequest ==
    /\ pc = "handling"
    /\ LET step == BeforeFetch(route, reqBody, envKey)
       IN  CASE step.kind = "throw" ->
                  /\ caught' = step.error
                  /\ response' = CatchResponse
                  /\ pc' = "done"
                  /\ UNCHANGED <<upstreamReq, fetchCount>>
             [] step.kind = "return" ->
                  /\ response' = KeyMissingResponse
                  /\ pc' = "done"
                  /\ UNCHANGED <<caught, upstreamReq, fetchCount>>
             [] step.kind = "fetch" ->
                  /\ upstreamReq' = FetchRequest(route, reqBody, envKey)
                  /\ fetchCount' = fetchCount + 1
                  /\ pc' = "awaitFetch"
                  /\ UNCHANGED <<caught, response>>
    /\ UNCHANGED <<route, envKey, reqBody, upstreamResp>>

\* fetch resolves with the upstream's status and body; POST runs to its end.
FetchResolve(st, raw) ==
    /\ pc = "awaitFetch"
    /\ upstreamResp' = [arrived |-> TRUE, failed |-> FALSE, status |-> st, body |-> raw]
    /\ LET step == AfterFetch(st, raw)
       IN  IF step.kind = "throw"
           THEN /\ caught' = step.error
                /\ response' = CatchResponse
           ELSE /\ response' = step.resp
                /\ UNCHANGED caught
    /\ pc' = "done"
    /\ UNCHANGED <<route, envKey, reqBody, upstreamReq, fetchCount>>

\* A rejected fetch being called again instead of answered.
FetchReject_Retry ==
    /\ pc = "awaitFetch"
    /\ fetchCount < 3
    /\ fetchCount' = fetchCount + 1
    /\ upstreamResp' = [arrived |-> FALSE, failed |-> TRUE, status |-> 0, body |-> <<>>]
    /\ UNCHANGED <<route, envKey, reqBody, upstreamReq, pc, response, caught>>

\* fetch rejects (network failure); the catch block answers.
FetchReject ==
    /\ pc = "awaitFetch"
    /\ upstreamResp' = [arrived |-> FALSE, failed |-> TRUE, status |-> 0, body |-> <<>>]
    /\ caught' = "fetch failed"
    /\ response' = CatchResponse
    /\ pc' = "done"
    /\ UNCHANGED <<route, envKey, reqBody, upstreamReq, fetchCount>>


(***************************************************************************)
(*                         THE HOME PAGE                                   *)
(***************************************************************************)
\* The versions of the dashboard page: src/app/page.tsx, the second Home
\* component of part_001 (detective-style steps, category filter, theme
\* toggle), part_002 (the same in a single theme, with formatting issues)
\* and part_003 (the steps and memo of page.tsx, with issue selection).
Variants == {"page", "part_001", "part_002", "part_003"}

\* The versions with the detective-style steps; they are also the ones whose
\* upload handler keeps isExtracting, extractionError, uploadedFile and
\* wordCount, and the ones with the category filter.
Detective(v) == v \in {"part_001", "part_002"}

\* Most submissions a behaviour makes.
MaxCalls == 2

\* A text is a sequence of characters, each given by the class the code
\* tells apart: "d" digit, "s" white space, "U" upper case, "l" lower case,
\* "p" period, "x" anything else in ASCII, "e" an accented letter (outside
\* ASCII), "r" the replacement character U+FFFD.
Texts ==
    { <<>>,
      <<"s">>,
      <<"l", "s", "l">>,
      <<"d", "s", "U", "l", "p", "s", "d", "x", "d", "d", "s", "s", "U", "l", "l", "s", "d">> }

\* null, for a string-valued state
Null == <<"null">>

\* !text.trim()
IsBlank(text) == Trim(text, {"s"}) = <<>>

\* Index after the longest run of class c starting at text[i].
SkipClass(text, i, c) ==
    CHOOSE j \in i..(Len(text) + 1) :
        /\ \A k \in i..(j - 1) : text[k] = c
        /\ (j = Len(text) + 1 \/ text[j] # c)

\* /\d+\s+[A-Z][a-z]+\.?\s+\d+/ matched at position i: the index after the
\* match, 0 when there is none.  Consecutive pieces of the pattern are
\* disjoint classes, so the greedy match is the only candidate.
MatchAt(text, i) ==
    LET a == SkipClass(text, i, "d")
        b == SkipClass(text, a, "s")
        c == b + 1
        e == SkipClass(text, c, "l")
        f == IF e <= Len(text) /\ text[e] = "p" THEN e + 1 ELSE e
        g == SkipClass(text, f, "s")
        h == SkipClass(text, g, "d")
    IN  IF a = i \/ b = a THEN 0
        ELSE IF b > Len(text) \/ text[b] # "U" THEN 0
        ELSE IF e = c \/ g = f \/ h = g THEN 0
        ELSE h

\* (text.match(/\d+\s+[A-Z][a-z]+\.?\s+\d+/g) || []).length : the matches are
\* taken from left to right, each search starting where the last match ended.
CitationCount(text) ==
    LET n == Len(text)
        countFrom[i \in 1..(n + 1)] ==
            IF i > n THEN 0
            ELSE IF MatchAt(text, i) = 0 THEN countFrom[i + 1]
            ELSE 1 + countFrom[MatchAt(text, i)]
    IN  countFrom[1]

\* Number of white-space runs inside a trimmed text.
Gaps(t) == Cardinality({ i \in 2..Len(t) : t[i] = "s" /\ t[i - 1] # "s" })

\* text.trim().split(/\s+/).length : splitting the empty string gives [""]
SplitLength(text) ==
    IF IsBlank(text) THEN 1 ELSE 1 + Gaps(Trim(text, {"s"}))

\* text.trim().split(/\s+/).filter(w => w.length > 0).length
FilteredLength(text) ==
    IF IsBlank(text) THEN 0 ELSE 1 + Gaps(Trim(text, {"s"}))

(***************************************************************************)
(* Files the user can pick.  A file holds a text in the encoding it was    *)
(* saved with; its bytes are that text encoded.                            *)
(***************************************************************************)
TextPlain == "text/plain"
DocxType == "application/vnd.openxmlformats-officedocument.wordprocessingml.document"

Files ==
    { [name |-> "brief.txt",  type |-> TextPlain, encoding |-> "utf-8",
       text |-> <<"l", "e">>],
      [name |-> "brief.txt",  type |-> TextPlain, encoding |-> "latin-1",
       text |-> <<"l", "e">>],
      [name |-> "brief.docx", type |-> DocxType, encoding |-> "utf-8",
       text |-> <<"l">>],
      [name |-> "brief.pdf",  type |-> "application/pdf", encoding |-> "utf-8",
       text |-> <<"l">>] }

\* The bytes of one character: ASCII is one byte in both encodings, the
\* accented letter is C3 A9 in UTF-8 and E9 in Latin-1.
EncodeChar(c, enc) ==
    IF c = "e" THEN (IF enc = "utf-8" THEN <<"c3", "a9">> ELSE <<"e9">>)
    ELSE <<c>>

\* The bytes of a file.
Encode(text, enc) ==
    LET n == Len(text)
        from[i \in 1..(n + 1)] ==
            IF i > n THEN <<>> ELSE EncodeChar(text[i], enc) \o from[i + 1]
    IN  from[1]

\* The UTF-8 decoder: a well-formed sequence gives its character, a byte
\* that is not part of one gives U+FFFD.
Utf8Decode(bytes) ==
    LET n == Len(bytes)
        from[i \in 1..(n + 1)] ==
            IF i > n THEN <<>>
            ELSE IF bytes[i] = "c3" /\ i < n /\ bytes[i + 1] = "a9"
                 THEN <<"e">> \o from[i + 2]
            ELSE IF bytes[i] \in {"c3", "a9", "e9"}
                 THEN <<"r">> \o from[i + 1]
            ELSE <<bytes[i]>> \o from[i + 1]
    IN  from[1]

\* reader.readAsText(file) : e.target.result, the bytes decoded as UTF-8
ReadAsText(file) == Utf8Decode(Encode(file.text, file.encoding))

\* mammoth.extractRawText({ arrayBuffer }).value : each paragraph followed
\* by two newlines (the documents here have one paragraph)
ExtractRawText(file) == file.text \o <<"s", "s">>

UnsupportedMessage == "Unsupported file format. Please upload a .txt or .docx file."
ExtractFailedMessage == "Unable to extract text from this document."

NoFile == [isNull |-> TRUE]

(***************************************************************************)
(* The analysis.                                                           *)
(***************************************************************************)
Label(str, n) == [text |-> str, n |-> n]
NoStep == Label("", 0)

\* const steps = [...]
AnalysisSteps(v, text) ==
    IF ~Detective(v)
    THEN << Label("Parsing document structure", 0),
            Label("Extracting citations", 0),
            Label("Verifying legal authorities", 0),
            Label("Cross-checking factual assertions", 0),
            Label("Detecting hallucination patterns", 0),
            Label("Assessing filing risk", 0) >>
    ELSE << Label("Scanning N Citations...",
                  IF CitationCount(text) > 0 THEN CitationCount(text) ELSE 14),
            Label("Cross-referencing Docket #2:23-CV-118...", 0),
            Label("Verifying precedent in 9th Circuit database...", 0),
            Label("Checking for AI-generated hallucinations...", 0),
            Label("Analyzing factual claim consistency...", 0),
            Label("Assessing Rule 11 compliance risk...", 0) >>

\* await new Promise(resolve => setTimeout(resolve, 800 | 1000))
StepDelay(v) == IF ~Detective(v) THEN 800 ELSE 1000

NullMemo == [isNull |-> TRUE]

\* A memo made from the text: citation issues and a verdict against filing
\* only for texts with citations.
MockReviewMemo_FromText(v, text) ==
    [isNull |-> FALSE,
     readiness |->
        IF CitationCount(text) > 0 THEN "do_not_file" ELSE "safe_to_file",
     justification |-> 3,
     criticalIssues |->
        IF CitationCount(text) > 0
        THEN << "United States v. Brown, 789 F.2d 123 (2d Cir. 2019)",
                "Plaintiff suffered damages exceeding $500,000",
                "Johnson v. State, 456 U.S. 789 (2021)" >>
        ELSE << "Plaintiff suffered damages exceeding $500,000" >>,
     hallucinationSignals |->
        << "Courts have consistently held that [legal proposition]",
           "This jurisdiction clearly recognizes..." >>,
     formattingIssues |->
        IF v = "part_002"
        THEN << "Pursuant to Federal Rule of Civil Procedure 12(b)(6)",
                "see Brown v.United States" >>
        ELSE << >>,
     opposingCounselPerspective |->
        << "Citation errors in United States v. Brown and Johnson v. State",
           "Unsupported $500,000 damages claim" >>]

\* const mockReviewMemo: LegalReviewMemo = {...}; issues are given by their quotes
MockReviewMemo(v, text) ==
    [isNull |-> FALSE,
     readiness |-> "file_with_caution",
     justification |-> 3,
     criticalIssues |->
        << "United States v. Brown, 789 F.2d 123 (2d Cir. 2019)",
           "Plaintiff suffered damages exceeding $500,000",
           "Johnson v. State, 456 U.S. 789 (2021)" >>,
     hallucinationSignals |->
        << "Courts have consistently held that [legal proposition]",
           "This jurisdiction clearly recognizes..." >>,
     formattingIssues |->
        IF v = "part_002"
        THEN << "Pursuant to Federal Rule of Civil Procedure 12(b)(6)",
                "see Brown v.United States" >>
        ELSE << >>,
     opposingCounselPerspective |->
        << "Citation errors in United States v. Brown and Johnson v. State",
           "Unsupported $500,000 damages claim" >>]

\* const mockResults: AnalysisResults = {...} of part_004: each entry with
\* its text (or description) and whether it is flagged (a citation whose
\* status is not "verified", a claim without support, every inconsistency
\* and risk flag)
MockResults ==
    [citations |->
        << [text |-> "Smith v. Jones, 123 F.3d 456 (9th Cir. 2020)", flagged |-> FALSE],
           [text |-> "United States v. Brown, 789 F.2d 123 (2d Cir. 2019)", flagged |-> TRUE],
           [text |-> "Johnson v. State, 456 U.S. 789 (2021)", flagged |-> TRUE] >>,
     claims |->
        << [text |-> "Defendant failed to appear at three consecutive hearings", flagged |-> FALSE],
           [text |-> "Plaintiff suffered damages exceeding $500,000", flagged |-> TRUE] >>,
     inconsistencies |->
        << [text |-> "Page 3 states incident occurred on March 15; page 7 references March 18", flagged |-> TRUE],
           [text |-> "Jurisdiction claimed under both state and federal law without conflict analysis", flagged |-> TRUE] >>,
     riskFlags |->
        << [text |-> "Citation formatting does not conform to Bluebook standards", flagged |-> TRUE],
           [text |-> "Statute cited was amended after the date of alleged conduct", flagged |-> TRUE] >>]

Max(a, b) == IF a >= b THEN a ELSE b

\* getRiskMetrics()
GetRiskMetrics(v, memo) ==
    IF memo = NullMemo THEN [isNull |-> TRUE]
    ELSE LET hallucinations == Len(memo.hallucinationSignals)
             badLaw == Len(memo.criticalIssues)
             formatting == IF v = "part_002"
                           THEN Len(memo.formattingIssues)
                           ELSE Len(memo.opposingCounselPerspective)
             total == hallucinations + badLaw + formatting
         IN  [isNull |-> FALSE,
              score |-> Max(0, 100 - total * 10),
              hallucinations |-> hallucinations,
              badLaw |-> badLaw,
              formatting |-> formatting,
              total |-> total]

NoRun == [id |-> 0, text |-> Null, steps |-> <<>>, i |-> 0,
          shown |-> <<>>, waited |-> <<>>]

(***************************************************************************)
(* Selections in the dashboard.                                            *)
(***************************************************************************)
NoIssue == [isNull |-> TRUE]
Issue(quote) == [isNull |-> FALSE, quote |-> quote]
NoCategory == "null"
\* `${type}-${index}`, 'single-issue', or null
IssueId(type, index) == <<type, index>>
NoId == <<"null", 0>>

\* The issue lists a version renders for clicking, by the type it passes to
\* handleIssueClick.
IssueTypes(v) ==
    IF v = "page" THEN {}
    ELSE IF v = "part_002" THEN {"hallucination", "critical", "formatting"}
    ELSE {"hallucination", "critical"}

IssuesOf(memo, type) ==
    IF type = "hallucination" THEN memo.hallucinationSignals
    ELSE IF type = "critical" THEN memo.criticalIssues
    ELSE memo.formattingIssues

Categories == {"hallucinations", "badLaw", "formatting"}

InitPage ==
    /\ variant \in Variants
    /\ briefText = <<>>
    /\ status = "idle"
    /\ currentStep = NoStep
    /\ reviewMemo = NullMemo
    /\ submittedDocument = Null
    /\ uploadTime = ""
    /\ isExtracting = FALSE
    /\ extractionError = ""
    /\ selectedIssue = NoIssue
    /\ selectedIssueType = ""
    /\ selectedCategory = NoCategory
    /\ expandedIssueId = NoId
    /\ copiedText = NoId
    /\ uploadedFile = NoFile
    /\ wordCount = 0
    /\ runs = <<>>
    /\ nCalls = 0
    /\ completed = NoRun
    /\ pending = <<>>
    /\ alerted = ""
    /\ copyTimers = 0

\* What the auto-select effect does to the selection: the part_003 effect
\* selects an issue, the effect of part_001 and part_002 a category.
AutoSelect_BadLawFirst(v, memo) ==
    IF v = "part_003"
    THEN IF Len(memo.criticalIssues) > 0
         THEN [issue |-> Issue(memo.criticalIssues[1]), type |-> "critical",
               category |-> NoCategory]
         ELSE IF Len(memo.hallucinationSignals) > 0
         THEN [issue |-> Issue(memo.hallucinationSignals[1]),
               type |-> "hallucination", category |-> NoCategory]
         ELSE [issue |-> NoIssue, type |-> "", category |-> NoCategory]
    ELSE IF Len(memo.criticalIssues) > 0
         THEN [issue |-> NoIssue, type |-> "", category |-> "badLaw"]
         ELSE IF Len(memo.hallucinationSignals) > 0
         THEN [issue |-> NoIssue, type |-> "", category |-> "hallucinations"]
         ELSE [issue |-> NoIssue, type |-> "", category |-> NoCategory]

\* The setters the auto-select effect calls, given the memo: the fields it
\* does not set are marked by the value they have when nothing is selected.
AutoSelect(v, memo) ==
    IF v = "part_003"
    THEN IF Len(memo.hallucinationSignals) > 0
         THEN [issue |-> Issue(memo.hallucinationSignals[1]),
               type |-> "hallucination", category |-> NoCategory]
         ELSE IF Len(memo.criticalIssues) > 0
         THEN [issue |-> Issue(memo.criticalIssues[1]), type |-> "critical",
               category |-> NoCategory]
         ELSE [issue |-> NoIssue, type |-> "", category |-> NoCategory]
    ELSE IF Len(memo.hallucinationSignals) > 0
         THEN [issue |-> NoIssue, type |-> "", category |-> "hallucinations"]
         ELSE IF Len(memo.criticalIssues) > 0
         THEN [issue |-> NoIssue, type |-> "", category |-> "badLaw"]
         ELSE [issue |-> NoIssue, type |-> "", category |-> NoCategory]

\* The auto-select effect has its condition met and something to select: it
\* runs once the render is committed, before any other event is handled.
AutoSelectDue ==
    /\ variant # "page"
    /\ status = "complete"
    /\ reviewMemo # NullMemo
    /\ selectedIssue = NoIssue
    /\ (Detective(variant) => selectedCategory = NoCategory)
    /\ Len(reviewMemo.hallucinationSignals) + Len(reviewMemo.criticalIssues) > 0

\* Most file reads and extractions under way at once.
MaxPending == 1

\* Most clipboard timers under way at once.
MaxCopyTimers == 1

\* The sequence s without its k-th element.
RemoveAt(s, k) == SubSeq(s, 1, k - 1) \o SubSeq(s, k + 1, Len(s))

\* The landing page shows the textarea and the file input; the versions with
\* uploadedFile show the file card in their place once a file is loaded.
TextareaRendered ==
    /\ submittedDocument = Null
    /\ (Detective(variant) => uploadedFile = NoFile)

\* textarea onChange (disabled while isExtracting)
SetBriefText(t) ==
    /\ TextareaRendered
    /\ ~AutoSelectDue
    /\ ~isExtracting
    /\ briefText' = t
    /\ wordCount' = (IF Detective(variant) THEN FilteredLength(t) ELSE wordCount)
    /\ extractionError' = ""
    /\ UNCHANGED <<variant, status, currentStep, reviewMemo, submittedDocument,
                   uploadTime, isExtracting, selectVars, uploadedFile, runs,
                   nCalls, completed, pending, alerted>>

\* performAnalysis(text), up to its first await: the new run
StartRun(id, v, text) ==
    [id |-> id, text |-> text, steps |-> AnalysisSteps(v, text), i |-> 1,
     shown |-> << AnalysisSteps(v, text)[1] >>, waited |-> << >>]

\* handleSubmit: the button (rendered for a non-blank text while nothing is
\* being extracted) or Ctrl/Cmd+Enter in the textarea
HandleSubmit ==
    /\ submittedDocument = Null
    /\ ~AutoSelectDue
    /\ ~isExtracting
    /\ nCalls < MaxCalls
    /\ IF IsBlank(briefText)
       THEN /\ TextareaRendered
            /\ UNCHANGED pageVars
       ELSE /\ wordCount' = (IF Detective(variant) /\ wordCount = 0
                             THEN SplitLength(briefText) ELSE wordCount)
            /\ submittedDocument' = briefText
            /\ uploadTime' = "now"
            /\ status' = "analyzing"
            /\ currentStep' = StartRun(nCalls + 1, variant, briefText).shown[1]
            /\ nCalls' = nCalls + 1
            /\ runs' = Append(runs, StartRun(nCalls + 1, variant, briefText))
            /\ UNCHANGED <<variant, briefText, reviewMemo, isExtracting,
                           extractionError, selectVars, uploadedFile,
                           completed, pending, alerted>>

\* handleFileUpload, up to the point where it returns or awaits
HandleFileUpload(file) ==
    /\ TextareaRendered
    /\ ~AutoSelectDue
    /\ ~isExtracting
    /\ Len(pending) < MaxPending
    /\ IF file.type = TextPlain
       THEN /\ pending' = Append(pending, [kind |-> "read", file |-> file])
            /\ isExtracting' = Detective(variant)
            /\ extractionError' = (IF Detective(variant) THEN "" ELSE extractionError)
            /\ UNCHANGED alerted
       ELSE IF file.type = DocxType
       THEN /\ pending' = Append(pending, [kind |-> "extract", file |-> file])
            /\ isExtracting' = Detective(variant)
            /\ extractionError' = (IF Detective(variant) THEN "" ELSE extractionError)
            /\ UNCHANGED alerted
       ELSE /\ IF Detective(variant)
               THEN extractionError' = UnsupportedMessage /\ UNCHANGED alerted
               ELSE alerted' = UnsupportedMessage /\ UNCHANGED extractionError
            /\ UNCHANGED <<isExtracting, pending>>
    /\ UNCHANGED <<variant, briefText, status, currentStep, reviewMemo,
                   submittedDocument, uploadTime, selectVars, uploadedFile,
                   wordCount, runs, nCalls, completed>>

\* What a loaded text does to the page: setBriefText, and in the versions
\* that keep them setUploadedFile, setWordCount, setIsExtracting(false).
Loaded(text, file) ==
    /\ briefText' = text
    /\ IF Detective(variant)
       THEN /\ uploadedFile' = [isNull |-> FALSE, name |-> file.name, type |-> file.type]
            /\ wordCount' = SplitLength(text)
            /\ isExtracting' = FALSE
       ELSE UNCHANGED <<uploadedFile, wordCount, isExtracting>>
    /\ UNCHANGED <<variant, status, currentStep, reviewMemo, submittedDocument,
                   uploadTime, extractionError, selectVars, runs, nCalls,
                   completed, alerted>>

\* A reader that stores the text trimmed.
ReaderLoad_Trimmed(k) ==
    /\ k \in 1..Len(pending)
    /\ pending[k].kind = "read"
    /\ ~AutoSelectDue
    /\ Loaded(Trim(ReadAsText(pending[k].file), {"s", "e", "r"}), pending[k].file)
    /\ pending' = RemoveAt(pending, k)

\* reader.onload
ReaderLoad(k) ==
    /\ k \in 1..Len(pending)
    /\ pending[k].kind = "read"
    /\ ~AutoSelectDue
    /\ Loaded(ReadAsText(pending[k].file), pending[k].file)
    /\ pending' = RemoveAt(pending, k)

\* The read fails (the file can no longer be read): no handler is set for it.
ReaderError(k) ==
    /\ k \in 1..Len(pending)
    /\ pending[k].kind = "read"
    /\ pending' = RemoveAt(pending, k)
    /\ UNCHANGED <<variant, briefText, status, currentStep, reviewMemo,
                   submittedDocument, uploadTime, isExtracting, extractionError,
                   selectVars, uploadedFile, wordCount, runs, nCalls, completed,
                   alerted>>

\* mammoth.extractRawText resolves: the rest of the try block
ExtractResolve(k) ==
    /\ k \in 1..Len(pending)
    /\ pending[k].kind = "extract"
    /\ ~AutoSelectDue
    /\ Loaded(ExtractRawText(pending[k].file), pending[k].file)
    /\ pending' = RemoveAt(pending, k)

\* file.arrayBuffer() or mammoth.extractRawText rejects: the catch block
ExtractReject(k) ==
    /\ k \in 1..Len(pending)
    /\ pending[k].kind = "extract"
    /\ ~AutoSelectDue
    /\ pending' = RemoveAt(pending, k)
    /\ IF Detective(variant)
       THEN /\ isExtracting' = FALSE
            /\ extractionError' = ExtractFailedMessage
            /\ UNCHANGED alerted
       ELSE /\ alerted' = ExtractFailedMessage
            /\ UNCHANGED <<isExtracting, extractionError>>
    /\ UNCHANGED <<variant, briefText, status, currentStep, reviewMemo,
                   submittedDocument, uploadTime, selectVars, uploadedFile,
                   wordCount, runs, nCalls, completed>>

\* handleRemoveFile (the button on the file card)
HandleRemoveFile ==
    /\ Detective(variant)
    /\ submittedDocument = Null
    /\ uploadedFile # NoFile
    /\ ~AutoSelectDue
    /\ uploadedFile' = NoFile
    /\ briefText' = <<>>
    /\ wordCount' = 0
    /\ UNCHANGED <<variant, status, currentStep, reviewMemo, submittedDocument,
                   uploadTime, isExtracting, extractionError, selectVars, runs,
                   nCalls, completed, pending, alerted>>

\* The loop showing the label it already shows (index off by one).
NextStep_Repeat(v, r) ==
    [r EXCEPT !.i = r.i + 1,
              !.shown = Append(r.shown, r.steps[r.i]),
              !.waited = Append(r.waited, StepDelay(v))]

\* A run whose delay has elapsed goes on to the next step of its loop.
NextStep(v, r) ==
    [r EXCEPT !.i = r.i + 1,
              !.shown = Append(r.shown, r.steps[r.i + 1]),
              !.waited = Append(r.waited, StepDelay(v))]

\* performAnalysis returning without setStatus("complete").
StepTimer_NoComplete ==
    /\ runs # <<>>
    /\ ~AutoSelectDue
    /\ LET r == Head(runs)
       IN  IF r.i < Len(r.steps)
           THEN /\ currentStep' = NextStep(variant, r).shown[r.i + 1]
                /\ runs' = Append(Tail(runs), NextStep(variant, r))
                /\ UNCHANGED <<status, reviewMemo, completed>>
           ELSE /\ reviewMemo' = MockReviewMemo(variant, r.text)
                /\ runs' = Tail(runs)
                /\ completed' = [r EXCEPT !.waited = Append(r.waited, StepDelay(variant))]
                /\ UNCHANGED <<status, currentStep>>
    /\ UNCHANGED <<variant, briefText, submittedDocument, nCalls, uploadTime,
                   uploadVars, selectVars>>

\* The step timer of the oldest waiting run fires and performAnalysis resumes:
\* the next label, or past the loop the memo and status "complete".  All step
\* timers of a page have the same delay, so they fire in the order in which
\* they were set.
StepTimer ==
    /\ runs # <<>>
    /\ ~AutoSelectDue
    /\ LET r == Head(runs)
       IN  IF r.i < Len(r.steps)
           THEN /\ currentStep' = NextStep(variant, r).shown[r.i + 1]
                /\ runs' = Append(Tail(runs), NextStep(variant, r))
                /\ UNCHANGED <<status, reviewMemo, completed>>
           ELSE /\ reviewMemo' = MockReviewMemo(variant, r.text)
                /\ status' = "complete"
                /\ runs' = Tail(runs)
                /\ completed' = [r EXCEPT !.waited = Append(r.waited, StepDelay(variant))]
                /\ UNCHANGED currentStep
    /\ UNCHANGED <<variant, briefText, submittedDocument, nCalls, uploadTime,
                   uploadVars, selectVars>>

\* The auto-select useEffect ([status, reviewMemo, selectedCategory,
\* selectedIssue]; in part_003 without selectedCategory)
AutoSelectEffect ==
    /\ AutoSelectDue
    /\ IF variant = "part_003"
       THEN /\ selectedIssue' = AutoSelect(variant, reviewMemo).issue
            /\ selectedIssueType' = AutoSelect(variant, reviewMemo).type
            /\ UNCHANGED selectedCategory
       ELSE /\ selectedCategory' = AutoSelect(variant, reviewMemo).category
            /\ UNCHANGED <<selectedIssue, selectedIssueType>>
    /\ UNCHANGED <<variant, briefText, status, currentStep, reviewMemo,
                   submittedDocument, uploadTime, uploadVars, runs, nCalls,
                   completed, expandedIssueId, copiedText, copyTimers>>

\* The issue lists and the category buttons are rendered in the dashboard
\* once the analysis is complete.
ResultsRendered ==
    /\ submittedDocument # Null
    /\ status = "complete"
    /\ reviewMemo # NullMemo
    /\ ~AutoSelectDue

\* handleIssueClick(issue, type, index)
HandleIssueClick(type, index) ==
    /\ ResultsRendered
    /\ type \in IssueTypes(variant)
    /\ index \in 0..(Len(IssuesOf(reviewMemo, type)) - 1)
    /\ selectedIssue' = Issue(IssuesOf(reviewMemo, type)[index + 1])
    /\ selectedIssueType' = type
    /\ IF Detective(variant)
       THEN /\ selectedCategory' = NoCategory
            /\ expandedIssueId' = IssueId(type, index)
       ELSE UNCHANGED <<selectedCategory, expandedIssueId>>
    /\ UNCHANGED <<variant, briefText, status, currentStep, reviewMemo,
                   submittedDocument, uploadTime, uploadVars, runs, nCalls,
                   completed, copiedText, copyTimers>>

\* handleCategoryClick(category)
HandleCategoryClick(category) ==
    /\ ResultsRendered
    /\ Detective(variant)
    /\ selectedCategory' = category
    /\ selectedIssue' = NoIssue
    /\ expandedIssueId' = NoId
    /\ UNCHANGED <<variant, briefText, status, currentStep, reviewMemo,
                   submittedDocument, uploadTime, uploadVars, runs, nCalls,
                   completed, selectedIssueType, copiedText, copyTimers>>

\* "Clear filter" in the category panel of the inspector, which is rendered
\* while a category is selected and the status is "complete"
ClearFilter ==
    /\ Detective(variant)
    /\ submittedDocument # Null
    /\ status = "complete"
    /\ selectedCategory # NoCategory
    /\ ~AutoSelectDue
    /\ selectedCategory' = NoCategory
    /\ expandedIssueId' = NoId
    /\ UNCHANGED <<variant, briefText, status, currentStep, reviewMemo,
                   submittedDocument, uploadTime, uploadVars, runs, nCalls,
                   completed, selectedIssue, selectedIssueType, copiedText,
                   copyTimers>>

\* handleCopyToClipboard(text, issueId) from the single-issue panel
HandleCopyToClipboard ==
    /\ variant = "part_002"
    /\ submittedDocument # Null
    /\ ~AutoSelectDue
    /\ selectedCategory = NoCategory
    /\ selectedIssue # NoIssue
    /\ copyTimers < MaxCopyTimers
    /\ copiedText' = IssueId("single-issue", 0)
    /\ copyTimers' = copyTimers + 1
    /\ UNCHANGED <<variant, briefText, status, currentStep, reviewMemo,
                   submittedDocument, uploadTime, uploadVars, runs, nCalls,
                   completed, selectedIssue, selectedIssueType,
                   selectedCategory, expandedIssueId>>

\* setTimeout(() => setCopiedText(null), 2000)
CopyTimer ==
    /\ copyTimers > 0
    /\ ~AutoSelectDue
    /\ copiedText' = NoId
    /\ copyTimers' = copyTimers - 1
    /\ UNCHANGED <<variant, briefText, status, currentStep, reviewMemo,
                   submittedDocument, uploadTime, uploadVars, runs, nCalls,
                   completed, selectedIssue, selectedIssueType,
                   selectedCategory, expandedIssueId>>

\* "New Analysis" onClick (the dashboard is rendered while a document is
\* submitted): five setters, in part_002 fourteen
NewAnalysis ==
    /\ submittedDocument # Null
    /\ ~AutoSelectDue
    /\ submittedDocument' = Null
    /\ briefText' = <<>>
    /\ status' = "idle"
    /\ reviewMemo' = NullMemo
    /\ selectedIssue' = NoIssue
    /\ IF variant = "part_002"
       THEN /\ selectedIssueType' = ""
            /\ selectedCategory' = NoCategory
            /\ expandedIssueId' = NoId
            /\ uploadedFile' = NoFile
            /\ wordCount' = 0
            /\ isExtracting' = FALSE
            /\ extractionError' = ""
            /\ uploadTime' = ""
            /\ copiedText' = NoId
       ELSE UNCHANGED <<selectedIssueType, selectedCategory, expandedIssueId,
                        uploadedFile, wordCount, isExtracting, extractionError,
                        uploadTime, copiedText>>
    /\ UNCHANGED <<variant, currentStep, runs, nCalls, completed, pending,
                   alerted, copyTimers>>

(***************************************************************************)
(*                         THE THEME                                       *)
(***************************************************************************)
\* The Home components with a theme: the landing page at the top of
\* part_001, the dashboard of part_001 and the page of part_004.
ThemedVariants == {"part_001_landing", "part_001", "part_004"}

\* The ones with the effect that reads the system preference on mount.
ReadsPreference(tv) == tv \in {"part_001_landing", "part_004"}

\* Most clicks on the theme toggle in a behaviour.
MaxToggles == 4

InitTheme ==
    /\ themed = ""
    /\ prefersDark = FALSE
    /\ isDark = TRUE
    /\ darkClass = FALSE
    /\ themeDue = "none"
    /\ themeLog = <<>>

\* The component is rendered for the first time: useState(true); the root
\* element has the class the layout gave it (src/app/layout.tsx gives none,
\* the layout of part_005 gives "dark").
Mount(tv, prefers, htmlDark) ==
    /\ themed = ""
    /\ themed' = tv
    /\ prefersDark' = prefers
    /\ isDark' = TRUE
    /\ darkClass' = htmlDark
    /\ themeDue' = "mount"
    /\ themeLog' = <<>>

\* The effects of the first render, in the order of their definition:
\* setIsDark(matchMedia("(prefers-color-scheme: dark)").matches) where the
\* component has it, then the class effect with the isDark of that render.
MountEffects ==
    /\ themeDue = "mount"
    /\ isDark' = (IF ReadsPreference(themed) THEN prefersDark ELSE isDark)
    /\ darkClass' = isDark
    /\ themeDue' = (IF isDark' # isDark THEN "class" ELSE "none")
    /\ UNCHANGED <<themed, prefersDark, themeLog>>

\* An effect that adds the class whatever isDark is.
ThemeEffect_AlwaysDark ==
    /\ themeDue = "class"
    /\ darkClass' = TRUE
    /\ themeDue' = "none"
    /\ UNCHANGED <<themed, prefersDark, isDark, themeLog>>

\* useEffect(..., [isDark]) after a render in which isDark changed
ThemeEffect ==
    /\ themeDue = "class"
    /\ darkClass' = isDark
    /\ themeDue' = "none"
    /\ UNCHANGED <<themed, prefersDark, isDark, themeLog>>

\* onClick={() => setIsDark(!isDark)} ; themeLog keeps what the theme and the
\* class were before each click
ToggleTheme ==
    /\ themed # ""
    /\ themeDue = "none"
    /\ Len(themeLog) < MaxToggles
    /\ isDark' = ~isDark
    /\ themeDue' = "class"
    /\ themeLog' = Append(themeLog, [isDark |-> isDark, darkClass |-> darkClass])
    /\ UNCHANGED <<themed, prefersDark, darkClass>>

(***************************************************************************)
(*                         SPECIFICATIONS                                  *)
(***************************************************************************)
(***************************************************************************)
(* AUTO-ANALYSIS PAGE (part_004): the analysis starts by itself 1000 ms    *)
(* after the last change of the text.  Time is counted in units of         *)
(* TimeUnit ms, the greatest common divisor of the two delays.             *)
(***************************************************************************)
TimeUnit == 200

\* setTimeout(() => { performAnalysis(briefText); }, 1000)
DebounceDelay == 1000 \div TimeUnit

\* await new Promise(resolve => setTimeout(resolve, 600))
AutoStepDelay == 600 \div TimeUnit

NoTimer == 0 - 1

NoResults == [isNull |-> TRUE]

\* const steps = [...] of part_004
AutoSteps ==
    << "Parsing document structure",
       "Extracting citations",
       "Verifying legal authorities",
       "Reviewing factual claims",
       "Checking consistency" >>

\* The component after its first render and its mount effects: the debounce
\* effect has run once and its timer is pending.
InitAuto ==
    /\ autoText = <<>>
    /\ autoStatus = "idle"
    /\ autoStep = ""
    /\ results = NoResults
    /\ debounce = DebounceDelay
    /\ autoRuns = <<>>

\* A timer whose delay has elapsed fires before time goes on.
TimerDue == debounce = 0 \/ \E k \in 1..Len(autoRuns) : autoRuns[k].left = 0

\* TimeUnit ms pass: every pending timer comes closer.
AutoTick ==
    /\ ~TimerDue
    /\ debounce # NoTimer \/ autoRuns # <<>>
    /\ debounce' = IF debounce = NoTimer THEN NoTimer ELSE debounce - 1
    /\ autoRuns' = [k \in 1..Len(autoRuns) |->
                       [autoRuns[k] EXCEPT !.left = @ - 1]]
    /\ UNCHANGED <<autoText, autoStatus, autoStep, results>>

\* onChange={(e) => setBriefText(e.target.value)} with a new value, and the
\* debounce effect it re-runs: the cleanup clears the pending timer and the
\* effect sets a new one.
AutoSetBriefText(t) ==
    /\ t # autoText
    /\ autoText' = t
    /\ debounce' = DebounceDelay
    /\ UNCHANGED <<autoStatus, autoStep, results, autoRuns>>

\* The debounce timer fires: performAnalysis(briefText) up to its first await.
DebounceTimer ==
    /\ debounce = 0
    /\ debounce' = NoTimer
    /\ IF IsBlank(autoText)
       THEN /\ autoStatus' = "idle"
            /\ results' = NoResults
            /\ UNCHANGED <<autoStep, autoRuns>>
       ELSE /\ autoStatus' = "analyzing"
            /\ autoStep' = AutoSteps[1]
            /\ autoRuns' = Append(autoRuns, [i |-> 1, left |-> AutoStepDelay])
            /\ UNCHANGED results
    /\ UNCHANGED autoText

\* A step delay of a performAnalysis call elapses: the loop shows the next
\* step; after the last one the call sets the results and the status.
AutoStepTimer(k) ==
    /\ k \in 1..Len(autoRuns)
    /\ autoRuns[k].left = 0
    /\ IF autoRuns[k].i < Len(AutoSteps)
       THEN /\ autoStep' = AutoSteps[autoRuns[k].i + 1]
            /\ autoRuns' = [autoRuns EXCEPT ![k] =
                               [i |-> @.i + 1, left |-> AutoStepDelay]]
            /\ UNCHANGED <<autoStatus, results>>
       ELSE /\ autoRuns' = RemoveAt(autoRuns, k)
            /\ results' = MockResults
            /\ autoStatus' = "complete"
            /\ UNCHANGED autoStep
    /\ UNCHANGED <<autoText, debounce>>

(***************************************************************************)
(* HIGHLIGHTED DOCUMENT: the builder the dashboards of part_001, part_002  *)
(* and part_003 run when they render a completed analysis.  Documents are  *)
(* strings here, because the builder looks the quotes up in them.          *)
(***************************************************************************)
Dashboards == {"part_001", "part_002", "part_003"}

\* Most pieces a document is put together from.
MaxPieces == 3

\* What documents are made of: quotes of the memo (two critical issues, a
\* hallucination signal, a formatting issue of part_002), the start of one of
\* them, and other text.
Pieces ==
    { "United States v. Brown, 789 F.2d 123 (2d Cir. 2019)",
      "Plaintiff suffered damages exceeding $500,000",
      "Courts have consistently held that [legal proposition]",
      "see Brown v.United States",
      "United States v. ",
      " ",
      "as held in " }

\* The documents of n pieces.
RECURSIVE DocumentsOf(_)
DocumentsOf(n) ==
    IF n = 0 THEN {""}
    ELSE { d \o p : d \in DocumentsOf(n - 1), p \in Pieces }

\* if (!briefText.trim()) return; of handleSubmit, for a string
IsBlankString(s) == \A i \in 1..Len(s) : SubSeq(s, i, i) = " "

\* The documents that can be submitted.
Documents ==
    { d \in UNION { DocumentsOf(n) : n \in 1..MaxPieces } : ~IsBlankString(d) }

Min(a, b) == IF a <= b THEN a ELSE b

\* String.prototype.indexOf(q): the first position of q (from 0), or -1
IndexOf(s, q) ==
    LET At == { i \in 0..(Len(s) - Len(q)) : SubSeq(s, i + 1, i + Len(q)) = q }
    IN  IF At = {} THEN 0 - 1
        ELSE CHOOSE i \in At : \A j \in At : i <= j

\* String.prototype.substring(a, b)
Substring(s, a, b) == SubSeq(s, Min(a, b) + 1, Max(a, b))

\* reviewMemo.criticalIssues.forEach(...) then
\* reviewMemo.hallucinationSignals.forEach(...): the quotes found, in the
\* order in which they are pushed
CollectIssues(doc, memo) ==
    LET Entry(quote, type, k) ==
            [start |-> IndexOf(doc, quote),
             end |-> IndexOf(doc, quote) + Len(quote),
             quote |-> quote, type |-> type, index |-> k - 1]
        all == [k \in 1..Len(memo.criticalIssues) |->
                    Entry(memo.criticalIssues[k], "critical", k)]
               \o [k \in 1..Len(memo.hallucinationSignals) |->
                    Entry(memo.hallucinationSignals[k], "hallucination", k)]
    IN  SelectSeq(all, LAMBDA e : e.start # 0 - 1)

\* The issues are left in the order in which they were collected.
SortByStart_Unsorted(list) == list

\* issues.sort((a, b) => a.start - b.start): a stable sort
SortByStart(list) ==
    LET n == Len(list)
        Rank(k) == Cardinality({ j \in 1..n :
                       \/ list[j].start < list[k].start
                       \/ list[j].start = list[k].start /\ j < k }) + 1
    IN  [p \in 1..n |-> list[CHOOSE k \in 1..n : Rank(k) = p]]

TextPart(text) == [span |-> FALSE, text |-> text, key |-> NoId]
SpanPart(issue) ==
    [span |-> TRUE, text |-> issue.quote, key |-> IssueId(issue.type, issue.index)]

\* issues.forEach(...) over the sorted issues and the remaining text
BuildParts(doc, sorted) ==
    LET Loop[k \in 0..Len(sorted)] ==
            IF k = 0 THEN [parts |-> <<>>, lastEnd |-> 0]
            ELSE LET prev == Loop[k - 1]
                     before == IF sorted[k].start > prev.lastEnd
                               THEN << TextPart(Substring(doc, prev.lastEnd,
                                                          sorted[k].start)) >>
                               ELSE << >>
                 IN  [parts |-> prev.parts \o before \o << SpanPart(sorted[k]) >>,
                      lastEnd |-> sorted[k].end]
        done == Loop[Len(sorted)]
    IN  IF done.lastEnd < Len(doc)
        THEN Append(done.parts, TextPart(Substring(doc, done.lastEnd, Len(doc))))
        ELSE done.parts

\* Before a document is submitted no dashboard is rendered.
InitRender ==
    /\ renderVariant = ""
    /\ renderDocument = ""
    /\ issues = <<>>
    /\ parts = <<>>

\* The dashboard of version v renders the document of a completed analysis;
\* the memo is the same whatever the text.
RenderDocument(v, doc) ==
    /\ renderDocument = ""
    /\ renderVariant' = v
    /\ renderDocument' = doc
    /\ issues' = SortByStart(CollectIssues(doc, MockReviewMemo(v, <<>>)))
    /\ parts' = BuildParts(doc, issues')

\* "New Analysis": setSubmittedDocument(null), the document is no longer
\* rendered.
RenderNothing ==
    /\ renderDocument # ""
    /\ renderVariant' = ""
    /\ renderDocument' = ""
    /\ issues' = <<>>
    /\ parts' = <<>>

Init == InitRoute /\ InitPage /\ InitTheme /\ InitAuto /\ InitRender

NextRoute ==
    \/ \E r \in Routes, b \in RequestBodies, e \in EnvKeys :
          ReceiveRequest(r, b, e) /\ UNCHANGED <<pageVars, themeVars, autoVars, renderVars>>
    \/ HandleRequest /\ UNCHANGED <<pageVars, themeVars, autoVars, renderVars>>
    \/ \E st \in UpstreamStatuses, raw \in UpstreamBodies :
          FetchResolve(st, raw) /\ UNCHANGED <<pageVars, themeVars, autoVars, renderVars>>
    \/ FetchReject /\ UNCHANGED <<pageVars, themeVars, autoVars, renderVars>>

Next ==
    \/ \E t \in Texts : SetBriefText(t) /\ UNCHANGED <<routeVars, themeVars, autoVars, renderVars>>
    \/ HandleSubmit /\ UNCHANGED <<routeVars, themeVars, autoVars, renderVars>>
    \/ StepTimer /\ UNCHANGED <<routeVars, themeVars, autoVars, renderVars>>
    \/ AutoSelectEffect /\ UNCHANGED <<routeVars, themeVars, autoVars, renderVars>>
    \/ NewAnalysis /\ UNCHANGED <<routeVars, themeVars, autoVars, renderVars>>

NextUpload ==
    \/ \E t \in Texts : SetBriefText(t) /\ UNCHANGED <<routeVars, themeVars, autoVars, renderVars>>
    \/ \E f \in Files : HandleFileUpload(f) /\ UNCHANGED <<routeVars, themeVars, autoVars, renderVars>>
    \/ \E k \in 1..MaxPending : ReaderLoad(k) /\ UNCHANGED <<routeVars, themeVars, autoVars, renderVars>>
    \/ \E k \in 1..MaxPending : ReaderError(k) /\ UNCHANGED <<routeVars, themeVars, autoVars, renderVars>>
    \/ \E k \in 1..MaxPending : ExtractResolve(k) /\ UNCHANGED <<routeVars, themeVars, autoVars, renderVars>>
    \/ \E k \in 1..MaxPending : ExtractReject(k) /\ UNCHANGED <<routeVars, themeVars, autoVars, renderVars>>
    \/ HandleRemoveFile /\ UNCHANGED <<routeVars, themeVars, autoVars, renderVars>>

NextSelect ==
    \/ Next
    \/ \E type \in {"hallucination", "critical", "formatting"}, index \in 0..2 :
          HandleIssueClick(type, index) /\ UNCHANGED <<routeVars, themeVars, autoVars, renderVars>>
    \/ \E c \in Categories : HandleCategoryClick(c) /\ UNCHANGED <<routeVars, themeVars, autoVars, renderVars>>
    \/ ClearFilter /\ UNCHANGED <<routeVars, themeVars, autoVars, renderVars>>
    \/ HandleCopyToClipboard /\ UNCHANGED <<routeVars, themeVars, autoVars, renderVars>>
    \/ CopyTimer /\ UNCHANGED <<routeVars, themeVars, autoVars, renderVars>>

NextTheme ==
    \/ \E tv \in ThemedVariants, prefers \in BOOLEAN, htmlDark \in BOOLEAN :
          Mount(tv, prefers, htmlDark) /\ UNCHANGED <<routeVars, pageVars, autoVars, renderVars>>
    \/ MountEffects /\ UNCHANGED <<routeVars, pageVars, autoVars, renderVars>>
    \/ ThemeEffect /\ UNCHANGED <<routeVars, pageVars, autoVars, renderVars>>
    \/ ToggleTheme /\ UNCHANGED <<routeVars, pageVars, autoVars, renderVars>>

\* The analysis of the page: text area, submit, step timers, New Analysis.
Spec == Init /\ [][Next]_vars

\* The landing page with its file uploads.
SpecUpload == Init /\ [][NextUpload]_vars

\* The page with the selections of its dashboard.
SpecSelect == Init /\ [][NextSelect]_vars

SpecTheme == Init /\ [][NextTheme]_vars

NextAuto ==
    \/ AutoTick /\ UNCHANGED <<routeVars, pageVars, themeVars, renderVars>>
    \/ \E t \in Texts : AutoSetBriefText(t) /\ UNCHANGED <<routeVars, pageVars, themeVars, renderVars>>
    \/ DebounceTimer /\ UNCHANGED <<routeVars, pageVars, themeVars, renderVars>>
    \/ \E k \in 1..Len(autoRuns) :
          AutoStepTimer(k) /\ UNCHANGED <<routeVars, pageVars, themeVars, renderVars>>

\* the auto-analysis page of part_004
SpecAuto == Init /\ [][NextAuto]_vars

NextRender ==
    \/ \E v \in Dashboards, doc \in Documents :
          RenderDocument(v, doc) /\ UNCHANGED <<routeVars, pageVars, themeVars, autoVars>>
    \/ RenderNothing /\ UNCHANGED <<routeVars, pageVars, themeVars, autoVars>>

\* the highlighted document of the dashboards
SpecRender == Init /\ [][NextRender]_vars

SpecRoute == Init /\ [][NextRoute]_vars

\* The timers fire and the effects run.
SpecLive ==
    /\ Spec
    /\ WF_vars(StepTimer /\ UNCHANGED <<routeVars, themeVars, autoVars, renderVars>>)
    /\ WF_vars(AutoSelectEffect /\ UNCHANGED <<routeVars, themeVars, autoVars, renderVars>>)


(***************************************************************************)
(*                         PROPERTIES: PROXY ROUTES                        *)
(***************************************************************************)
Answered == pc = "done"

\* The upstream answered and its body is JSON.
UpstreamJson == upstreamResp.arrived /\ JsonParse(upstreamResp.body).ok

\* Two bodies carry the same content: the same JSON value when the first
\* is JSON, the same text otherwise.
SameBody(a, b) ==
    IF JsonParse(a).ok
    THEN JsonParse(b).ok /\ JsonParse(b).value = JsonParse(a).value
    ELSE b = a

\* C1: every request handled while OPENROUTER_API_KEY is unset (or blank
\* after trimming) is answered with 401 and the JSON error message,
\* whatever the request body is.
C1_KeyMissingAlways401 ==
    Answered /\ KeyMissing(ApiKey(envKey)) => response = KeyMissingResponse

\* C2: when the upstream answers with a non-OK status, the route's response
\* carries the upstream's status code and the upstream's body, for every
\* such upstream response.
C2_NonOkRelayed ==
    Answered /\ upstreamResp.arrived /\ ~Ok(upstreamResp.status)
        => /\ response.status = upstreamResp.status
           /\ SameBody(upstreamResp.body, response.body)

\* C3 as stated: whenever the upstream answers with a JSON body, the
\* response body equals the upstream JSON body and the response status
\* equals the upstream status code, also when the upstream call succeeds.
C3_StatusAlwaysUpstream ==
    Answered /\ UpstreamJson
        => /\ SameBody(upstreamResp.body, response.body)
           /\ response.status = upstreamResp.status

\* C3 amended: whenever the upstream answers with a JSON body, the response
\* body equals the upstream JSON body; the response status equals the
\* upstream status when that is non-OK and is 200 when the upstream is OK.
C3_BodyRelayedStatus200OnOk ==
    Answered /\ UpstreamJson
        => /\ SameBody(upstreamResp.body, response.body)
           /\ response.status =
                 IF Ok(upstreamResp.status) THEN 200 ELSE upstreamResp.status

\* An upstream success with a status other than 200 was answered.
C3_Witness ==
    /\ Answered /\ UpstreamJson
    /\ upstreamResp.status = 201
    /\ upstreamResp.body # response.body
    /\ response.status = 200

\* An exception was raised while the current request was handled.
ExceptionRaised ==
    \/ ~reqBody.json
    \/ upstreamResp.failed
    \/ upstreamResp.arrived /\ ~JsonParse(upstreamResp.body).ok
    \/ caught # ""

\* C4: any exception raised while a route handles a request (request body
\* not JSON, upstream network failure, upstream body not JSON) is caught:
\* the request is answered, with 500 and {error: "Internal Server Error"}.
C4_ExceptionsAnswered500 ==
    /\ (pc \in {"handling", "awaitFetch"} => caught = "")
    /\ (Answered => response # NoResponse)
    /\ (Answered /\ ExceptionRaised
          => /\ caught # ""
             /\ response.status = 500
             /\ response.body = <<"{", "error", "Internal Server Error", "}">>)

\* A failed upstream call, or an upstream body that is not JSON, was answered.
C4_Witness ==
    /\ Answered
    /\ response.status = 500
    /\ \/ upstreamResp.failed
       \/ upstreamResp.arrived /\ ~JsonParse(upstreamResp.body).ok

\* C5: when the API key is configured, every request whose body parses as
\* JSON is forwarded upstream with the body's prompt as the user message,
\* whatever the value or type of prompt and requestId.
C5_JsonAlwaysForwarded ==
    pc \in {"awaitFetch", "done"} /\ reqBody.json /\ ~KeyMissing(ApiKey(envKey))
        => upstreamReq.sent /\ upstreamReq.user = reqBody.prompt

\* C6: each request causes at most one upstream call (a failed call is not
\* retried), and none when the API key is absent.
C6_AtMostOneFetch ==
    /\ fetchCount <= 1
    /\ (pc # "idle" /\ KeyMissing(ApiKey(envKey)) => fetchCount = 0)
    /\ (Answered /\ (upstreamResp.failed \/ upstreamResp.arrived) => fetchCount = 1)

\* A failed upstream call has been answered without a second call.
C6_Witness ==
    Answered /\ upstreamResp.failed /\ fetchCount = 1 /\ response.status = 500

(***************************************************************************)
(*                         PROPERTIES: HOME PAGE                           *)
(***************************************************************************)
IsPrefix(a, b) == Len(a) <= Len(b) /\ a = SubSeq(b, 1, Len(a))

\* The runs there are to look at: those waiting and the one that returned last.
KnownRuns ==
    { runs[k] : k \in 1..Len(runs) } \cup
    (IF completed.id = 0 THEN {} ELSE {completed})

\* C7: after a submit, status goes idle -> analyzing -> complete: it never
\* passes from idle to complete directly, and it is not complete for a
\* submission while step delays of that submission's analysis are pending.
C7_IdleAnalyzingComplete ==
    /\ [][~(status = "idle" /\ status' = "complete")]_vars
    /\ [](status = "complete" /\ submittedDocument # Null => runs = <<>>)

\* C8: every analysis started by a submit terminates: with the timers
\* firing, run k returns, leaving status complete and a non-null memo; and
\* status stays complete until New Analysis or the next submit.
C8_AnalysisTerminates ==
    /\ \A k \in 1..MaxCalls :
          (\E j \in 1..Len(runs) : runs[j].id = k)
             ~> (completed.id = k /\ status = "complete" /\ reviewMemo # NullMemo)
    /\ [][status = "complete" /\ status' # "complete"
            => \/ submittedDocument # Null /\ submittedDocument' = Null
               \/ submittedDocument = Null /\ nCalls' = nCalls + 1]_vars

\* Run 2 returned while run 1 had been abandoned by New Analysis, and the
\* page shows the result of the second submission.
C8_Witness ==
    /\ completed.id = 2 /\ runs = <<>>
    /\ status = "complete" /\ reviewMemo # NullMemo
    /\ submittedDocument = completed.text

\* C9: the result is independent of the input: whatever was submitted, the
\* memo and the metrics derived from it are those of any other text.
C9_ResultIndependentOfInput ==
    reviewMemo # NullMemo =>
        \A t \in Texts :
            /\ reviewMemo = MockReviewMemo(variant, t)
            /\ GetRiskMetrics(variant, reviewMemo)
                  = GetRiskMetrics(variant, MockReviewMemo(variant, t))
            /\ GetRiskMetrics(variant, reviewMemo).score = 30

\* A run on a text with citations has produced the memo.
C9_Witness ==
    /\ status = "complete" /\ reviewMemo # NullMemo
    /\ completed.id # 0 /\ CitationCount(completed.text) > 0
    /\ submittedDocument = completed.text

\* Each label of a run was up for the same fixed delay, none twice.
TimedInOrder(r) ==
    /\ Len(r.shown) = r.i
    /\ \A a, b \in 1..Len(r.shown) : a # b => r.shown[a] # r.shown[b]
    /\ \A a \in 1..Len(r.waited) : r.waited[a] = StepDelay(variant)
    /\ Len(r.waited) = (IF r.id = completed.id /\ r = completed THEN r.i ELSE r.i - 1)

\* C10 as stated: for every submitted text the same labels are set, in the
\* same order, each for the same fixed delay, none skipped or repeated.
C10_SameLabelsForEveryText ==
    \A r \in KnownRuns :
        /\ TimedInOrder(r)
        /\ \A t \in Texts : IsPrefix(r.shown, AnalysisSteps(variant, t))

\* C10 amended: every run sets six labels in the same order, each for the
\* same fixed delay, none skipped or repeated; the labels are the same for
\* every text except, in the detective-style version, the first one, which
\* is "Scanning N Citations..." with N the number of citation matches in
\* the submitted text (14 when there is none).
C10_FixedStepsButFirstLabel ==
    \A r \in KnownRuns :
        /\ TimedInOrder(r)
        /\ IsPrefix(r.shown, AnalysisSteps(variant, r.text))
        /\ Len(AnalysisSteps(variant, r.text)) = 6
        /\ (r = completed => r.i = 6)
        /\ \A t \in Texts :
              /\ IsPrefix(Tail(r.shown), Tail(AnalysisSteps(variant, t)))
              /\ ~Detective(variant) => IsPrefix(r.shown, AnalysisSteps(variant, t))
        /\ Detective(variant) =>
              r.shown[1] = Label("Scanning N Citations...",
                                 IF CitationCount(r.text) > 0
                                 THEN CitationCount(r.text) ELSE 14)

\* A run of the detective-style version on a text with two citations returned.
C10_Witness ==
    /\ variant = "part_002"
    /\ completed.id # 0
    /\ completed.shown[1].n = 2
    /\ Len(completed.waited) = 6

\* C11: a submit with empty or whitespace-only text changes no state, and
\* status leaves idle only through a submit whose text has a character that
\* is not white space: no blank text is ever the submitted document, and
\* every step that takes status away from idle is such a submit.
C11_IdleLeftOnlyBySubmit ==
    /\ [](submittedDocument # Null => ~IsBlank(submittedDocument))
    /\ [][HandleSubmit /\ IsBlank(briefText) => UNCHANGED pageVars]_vars
    /\ [][status = "idle" /\ status' # "idle"
            => /\ ~IsBlank(briefText)
               /\ submittedDocument = Null
               /\ submittedDocument' = briefText
               /\ status' = "analyzing"]_vars

\* The files whose type handleFileUpload takes for neither text nor docx.
Unsupported(file) == file.type \notin {TextPlain, DocxType}

C13_UnsupportedSetsError ==
    [][\A f \in Files :
          HandleFileUpload(f) /\ Unsupported(f)
             => /\ extractionError' = UnsupportedMessage
                /\ briefText' = briefText]_vars

\* C14: when the extraction of a .docx file fails, the UI error string
\* (extractionError) is "Unable to extract text from this document.",
\* briefText, uploadedFile and wordCount keep their values, and the
\* extraction is not started again.
C14_ExtractFailureSetsError ==
    [][\A k \in 1..MaxPending :
          ExtractReject(k)
             => /\ extractionError' = ExtractFailedMessage
                /\ UNCHANGED <<briefText, uploadedFile, wordCount>>
                /\ Len(pending') = Len(pending) - 1]_vars

\* C15: whenever a review memo exists its filing readiness is
\* file_with_caution, never safe_to_file or do_not_file.
C15_ReadinessAlwaysCaution ==
    reviewMemo # NullMemo =>
        /\ reviewMemo.readiness = "file_with_caution"
        /\ reviewMemo.readiness \notin {"safe_to_file", "do_not_file"}

\* The memo of a text without citations is up.
C15_Witness ==
    /\ status = "complete"
    /\ reviewMemo # NullMemo
    /\ reviewMemo.readiness = "file_with_caution"
    /\ completed.id # 0 /\ CitationCount(completed.text) = 0

Range(seq) == { seq[i] : i \in 1..Len(seq) }

\* The quotes a memo flags.
FlaggedByMemo(memo) ==
    Range(memo.criticalIssues) \cup Range(memo.hallucinationSignals)
        \cup Range(memo.formattingIssues)

\* The texts the results of part_004 flag.
FlaggedByResults(res) ==
    { e.text : e \in { x \in Range(res.citations) \cup Range(res.claims)
                               \cup Range(res.inconsistencies)
                               \cup Range(res.riskFlags) : x.flagged } }

\* C16 as stated: every version of the page flags the same issues: the memo
\* on completion flags what the memo of every other version flags and what
\* the results of part_004 flag.
C16_SameIssuesInEveryVersion ==
    reviewMemo # NullMemo =>
        /\ \A v \in Variants, t \in Texts :
              FlaggedByMemo(reviewMemo) = FlaggedByMemo(MockReviewMemo(v, t))
        /\ FlaggedByMemo(reviewMemo) = FlaggedByResults(MockResults)

\* The three critical issues and the two hallucination signals of every memo.
CriticalQuotes ==
    << "United States v. Brown, 789 F.2d 123 (2d Cir. 2019)",
       "Plaintiff suffered damages exceeding $500,000",
       "Johnson v. State, 456 U.S. 789 (2021)" >>

HallucinationQuotes ==
    << "Courts have consistently held that [legal proposition]",
       "This jurisdiction clearly recognizes..." >>

\* C16 amended: every dashboard version flags the same three critical
\* issues and the same two hallucination signals, whatever was submitted;
\* part_002 flags two formatting issues besides, the other versions none.
\* The results of part_004 have another shape: they flag the three quotes
\* of the critical issues (two citations, one claim), no hallucination
\* signal, and four inconsistencies and risk flags no memo has.
C16_SameCriticalAndHallucination ==
    /\ reviewMemo # NullMemo =>
          /\ reviewMemo.criticalIssues = CriticalQuotes
          /\ reviewMemo.hallucinationSignals = HallucinationQuotes
          /\ Len(reviewMemo.formattingIssues) = (IF variant = "part_002" THEN 2 ELSE 0)
          /\ \A v \in Variants, t \in Texts :
                /\ MockReviewMemo(v, t).criticalIssues = reviewMemo.criticalIssues
                /\ MockReviewMemo(v, t).hallucinationSignals = reviewMemo.hallucinationSignals
                /\ (v # "part_002" /\ variant # "part_002"
                      => MockReviewMemo(v, t) = reviewMemo)
          /\ Range(CriticalQuotes) \subseteq FlaggedByResults(MockResults)
          /\ Range(HallucinationQuotes) \cap FlaggedByResults(MockResults) = {}
          /\ Cardinality(FlaggedByResults(MockResults) \ FlaggedByMemo(reviewMemo)) = 4

\* The memo of part_002, with its two formatting issues, is up.
C16_Witness ==
    /\ variant = "part_002"
    /\ status = "complete"
    /\ reviewMemo # NullMemo
    /\ Cardinality(FlaggedByMemo(reviewMemo)) = 7

\* Every state "New Analysis" is said to clear holds its initial value.
Cleared ==
    /\ submittedDocument = Null
    /\ briefText = <<>>
    /\ status = "idle"
    /\ reviewMemo = NullMemo
    /\ selectedIssue = NoIssue
    /\ selectedIssueType = ""
    /\ selectedCategory = NoCategory
    /\ expandedIssueId = NoId
    /\ uploadedFile = NoFile
    /\ wordCount = 0
    /\ ~isExtracting
    /\ extractionError = ""
    /\ uploadTime = ""
    /\ copiedText = NoId

\* C17: "New Analysis" clears all state to return to the upload state:
\* after it every one of these states holds its initial value, and they
\* keep it until the next user action (through the timers and the effects).
C17_NewAnalysisClearsAll ==
    /\ [][NewAnalysis => Cleared']_vars
    /\ [][Cleared /\ (StepTimer \/ AutoSelectEffect \/ CopyTimer) => Cleared']_vars

\* C18: when status is complete with a memo and neither an issue nor a
\* category is selected, the hallucinations category is selected if the
\* memo has a hallucination signal, otherwise the bad-law category if it has
\* a critical issue (part_003: the first hallucination signal, otherwise
\* the first critical issue), before anything else happens; otherwise
\* nothing is selected.
C18_AutoSelectOnComplete ==
    [][/\ status = "complete" /\ reviewMemo # NullMemo
       /\ variant # "page"
       /\ selectedIssue = NoIssue
       /\ (Detective(variant) => selectedCategory = NoCategory)
       => IF Detective(variant)
          THEN /\ selectedCategory' =
                     IF Len(reviewMemo.hallucinationSignals) > 0 THEN "hallucinations"
                     ELSE IF Len(reviewMemo.criticalIssues) > 0 THEN "badLaw"
                     ELSE NoCategory
               /\ selectedIssue' = NoIssue
          ELSE /\ selectedIssue' =
                     IF Len(reviewMemo.hallucinationSignals) > 0
                     THEN Issue(reviewMemo.hallucinationSignals[1])
                     ELSE IF Len(reviewMemo.criticalIssues) > 0
                     THEN Issue(reviewMemo.criticalIssues[1])
                     ELSE NoIssue
               /\ selectedIssueType' =
                     IF Len(reviewMemo.hallucinationSignals) > 0 THEN "hallucination"
                     ELSE IF Len(reviewMemo.criticalIssues) > 0 THEN "critical"
                     ELSE selectedIssueType]_vars

\* The effect has selected the hallucinations category for the only
\* analysis made (no click on a category came before: the issue type is
\* still the initial one and the document is in the dashboard).
C18_Witness ==
    /\ variant = "part_002"
    /\ nCalls = 1 /\ completed.id = 1
    /\ submittedDocument # Null
    /\ status = "complete"
    /\ selectedCategory = "hallucinations"
    /\ selectedIssue = NoIssue
    /\ selectedIssueType = ""

\* C20: results exist only for a submitted document: status complete or a
\* memo implies a submitted document, also when New Analysis is clicked
\* while an analysis is running.
C20_ResultsOnlyForSubmitted ==
    status = "complete" \/ reviewMemo # NullMemo => submittedDocument # Null

\* C21: at most one analysis run is in progress at any time: no run starts
\* while an earlier one has step delays pending, so every step of
\* performAnalysis (each currentStep update, and the final setReviewMemo and
\* setStatus("complete")) belongs to the most recent submission.
C21_AtMostOneRun ==
    /\ [](Len(runs) <= 1)
    /\ [][StepTimer => Head(runs).id = nCalls /\ Head(runs).text = submittedDocument]_vars

\* C22: in the auto-analysis page the outcome reflects the latest text:
\* whenever briefText is empty or whitespace-only and neither the debounce
\* timer nor a step delay of an analysis is pending, status is "idle" and
\* results is null.
C22_BlankTextMeansIdle ==
    (IsBlank(autoText) /\ debounce = NoTimer /\ autoRuns = <<>>)
        => (autoStatus = "idle" /\ results = NoResults)

\* C23: extraction always finishes: once an upload has set isExtracting to
\* true, the end of the read or of the extraction (a successful read, a failed
\* read, an extraction that succeeds or fails) sets it back to false, so the
\* textarea and the upload button do not stay disabled.
C23_ExtractionAlwaysFinishes ==
    [][(isExtracting /\ pending' # pending) => ~isExtracting']_vars

\* C24: "Clear filter" leaves the inspector with no category selected: the
\* click sets selectedCategory to null, and nothing but a click of the user on
\* a category or an issue selects one afterwards, so the effect that selects
\* a category by itself is not due after the click.
C24_ClearFilterStaysCleared ==
    [][ClearFilter => (selectedCategory' = NoCategory /\ ~AutoSelectDue')]_vars

\* The texts of the first k parts, one after the other.
ConcatText(k) ==
    LET Cat[i \in 0..k] == IF i = 0 THEN "" ELSE Cat[i - 1] \o parts[i].text
    IN  Cat[k]

\* The quotes of the memo of version v: those of its critical issues and
\* hallucination signals, and all of them.
HighlightedQuotes(v) ==
    Range(MockReviewMemo(v, <<>>).criticalIssues)
        \cup Range(MockReviewMemo(v, <<>>).hallucinationSignals)
MemoQuotes(v) ==
    HighlightedQuotes(v) \cup Range(MockReviewMemo(v, <<>>).formattingIssues)

\* The rendered parts keep the document, with one span for each of the
\* given quotes that the document contains.
RenderingPreserves(quotes) ==
    renderDocument # "" =>
        /\ \A k \in 1..(Len(issues) - 1) :
              /\ issues[k].start < issues[k + 1].start
              /\ issues[k].end <= issues[k + 1].start
        /\ ConcatText(Len(parts)) = renderDocument
        /\ \A k \in 1..Len(parts) :
              parts[k].span =>
                  /\ parts[k].text \in quotes
                  /\ IndexOf(renderDocument, parts[k].text) = Len(ConcatText(k - 1))
        /\ \A k \in 1..Len(parts) : ~parts[k].span => parts[k].text # ""
        /\ \A q \in quotes :
              Cardinality({ k \in 1..Len(parts) : parts[k].span /\ parts[k].text = q })
                  = (IF IndexOf(renderDocument, q) = 0 - 1 THEN 0 ELSE 1)

ThemeSettled == themed # "" /\ themeDue = "none"

\* isDark and the class are what they were two clicks ago.
TwoTogglesRestore ==
    Len(themeLog) >= 2 =>
        [isDark |-> isDark, darkClass |-> darkClass] = themeLog[Len(themeLog) - 1]

\* C19 as stated: in every themed version, once the effects have run the
\* root has the class "dark" exactly when isDark is true, isDark before any
\* click is the system preference, and two clicks in a row restore the
\* theme and the class.
C19_ThemeFollowsPreference ==
    ThemeSettled =>
        /\ darkClass = isDark
        /\ (themeLog = <<>> => isDark = prefersDark)
        /\ TwoTogglesRestore

\* C19 amended: in every themed version, once the effects have run the root
\* has the class "dark" exactly when isDark is true, and two clicks in a row
\* restore the theme and the class; isDark before any click is the system
\* preference in the landing page of part_001 and in part_004, and is true
\* (dark) whatever the preference in the dashboard of part_001.
C19_ThemeClassFollowsIsDark ==
    ThemeSettled =>
        /\ darkClass = isDark
        /\ (themeLog = <<>> =>
               isDark = (IF ReadsPreference(themed) THEN prefersDark ELSE TRUE))
        /\ TwoTogglesRestore

\* part_004 on a system that prefers light, after two clicks: light again.
C19_Witness ==
    /\ ThemeSettled
    /\ themed = "part_004"
    /\ ~prefersDark
    /\ Len(themeLog) = 2
    /\ ~isDark /\ ~darkClass


====
